---------------------------- MODULE Spec2Model ----------------------------
(***************************************************************************)
(* A model of pymantic/sparql.py: the SPARQL query client (SPARQLServer),  *)
(* the SPARQL 1.1 Graph Store client (UpdateableGraphStore,                *)
(* PatchableGraphStore) and the graph difference / changeset functions     *)
(* (differences, reify, changeset).                                        *)
(*                                                                         *)
(* Text (media types, URLs, bodies) is a sequence of tokens: a + b is      *)
(* a \o b and str.startswith is a prefix test on the sequence.  The HTTP   *)
(* transport (requests), the RDF parsers and serialisers (rdflib), json    *)
(* and lxml are collaborators: a response is an input of the method that   *)
(* receives it, exposing a status code, a content-type header and a body;  *)
(* a parser is recorded by which parser was applied to which body.         *)
(***************************************************************************)
EXTENDS Integers, Sequences, FiniteSets, TLC

VARIABLES
    post_queries,   \* SPARQLServer.post_queries
    param_style,    \* UpdateableGraphStore.param_style
    calls,          \* methods called on the current client
    wire,           \* HTTP requests the current client's session has sent
    call,           \* the last method call: its name and arguments
    request,        \* the last HTTP request sent
    response,       \* the response it received
    outcome,        \* how the last call ended: a returned value or a raised exception
    prev,           \* the query call before the last one: response and outcome
    a, b, exclude,  \* arguments of differences / changeset: two graphs, excluded predicates
    fwd,            \* result of differences(a, b, exclude)
    rev,            \* result of differences(b, a, exclude)
    cs,             \* result of changeset(a, b, graph_uri)
    bnodes          \* blank nodes rdflib.BNode() has handed out

clientVars == <<post_queries, param_style, calls, wire, call, request, response, outcome, prev>>
diffVars == <<a, b, exclude, fwd, rev, cs, bnodes>>
vars == <<clientVars, diffVars>>

---------------------------------------------------------------------------
(* Bounds *)

\* Calls made on one client before it is replaced by a new one.
MaxCalls == 2
\* Statements in an input graph of differences / changeset.
MaxGraphLen == 2

---------------------------------------------------------------------------
(* Text *)

\* str.startswith
StartsWith(s, p) == Len(p) <= Len(s) /\ SubSeq(s, 1, Len(p)) = p

\* sep.join(parts)
RECURSIVE Join(_, _)
Join(parts, sep) ==
    IF Len(parts) = 0 THEN <<>>
    ELSE IF Len(parts) = 1 THEN parts[1]
    ELSE parts[1] \o <<sep>> \o Join(Tail(parts), sep)

\* The media types a comma-separated header value lists, in order.
RECURSIVE MediaTypes(_)
MediaTypes(h) ==
    IF \A i \in 1..Len(h) : h[i] # ","
    THEN <<h>>
    ELSE LET i == CHOOSE k \in 1..Len(h) : h[k] = "," /\ \A j \in 1..(k-1) : h[j] # ","
         IN <<SubSeq(h, 1, i - 1)>> \o MediaTypes(SubSeq(h, i + 1, Len(h)))

RDF_XML == <<"application/", "rdf+xml">>
SPARQL_RESULTS_JSON == <<"application/", "sparql-results+", "json">>
SPARQL_RESULTS_XML == <<"application/", "sparql-results+", "xml">>
TEXT_PLAIN == <<"text/", "plain">>
TEXT_TURTLE == <<"text/", "turtle">>
TEXT_N3 == <<"text/", "rdf+n3">>
CHANGESET_XML == <<"application/", "vnd.talis.changeset+xml">>
Charset == <<";", "charset=utf-8">>

acceptable_sparql_responses == <<SPARQL_RESULTS_JSON, RDF_XML, SPARQL_RESULTS_XML>>

acceptable_graph_responses == <<TEXT_PLAIN, RDF_XML, TEXT_TURTLE, TEXT_N3>>

---------------------------------------------------------------------------
(* HTTP *)

None == [isNone |-> TRUE, val |-> <<>>]
Some(v) == [isNone |-> FALSE, val |-> v]

query_url == <<"http", ":", "/", "/", "localhost", "/", "tenuki", "/", "sparql">>
dataset_url == <<"http", ":", "/", "/", "localhost", "/", "tenuki", "/", "data">>

NoForm == [query |-> <<>>, output |-> <<>>, given |-> FALSE]
Form(sparql, output) == [query |-> sparql, output |-> output, given |-> TRUE]

NoBody == [format |-> "", encoding |-> "", graph |-> ""]

NoRequest ==
    [method |-> "", url |-> <<>>, data |-> NoForm, params |-> NoForm, body |-> NoBody,
     accept |-> <<>>, content_type |-> <<>>, stream |-> FALSE]

NoResponse == [status_code |-> 0, content_type |-> <<>>, text |-> <<>>]

\* Content-type headers a query endpoint answers with: the media types of the code,
\* the same with a charset parameter, another media type, and strings that hold a
\* recognised media type without starting with it.
QueryContentTypes ==
    { RDF_XML, RDF_XML \o Charset,
      SPARQL_RESULTS_JSON, SPARQL_RESULTS_JSON \o Charset,
      SPARQL_RESULTS_XML, SPARQL_RESULTS_XML \o Charset,
      <<"application/", "sparql-results+">>, <<" ">> \o RDF_XML }

\* Content-type headers a graph store answers a GET with.
GraphContentTypes ==
    { TEXT_PLAIN, TEXT_PLAIN \o Charset, RDF_XML, TEXT_TURTLE, TEXT_N3 \o Charset,
      <<"text/">>, <<"application/", "json">> }

QueryStatuses == {200, 204, 500}
StoreStatuses == {200, 201, 202, 204, 404, 500}

Bodies == { <<"Internal error">>, <<"payload">> }

QueryResponses ==
    [status_code : QueryStatuses, content_type : QueryContentTypes, text : Bodies]

\* Responses to GET on a graph.
GraphResponses ==
    [status_code : StoreStatuses, content_type : GraphContentTypes, text : Bodies]

\* Responses to DELETE, PUT, POST and PATCH: the code reads the status and the body.
UpdateResponses ==
    [status_code : StoreStatuses, content_type : {TEXT_PLAIN}, text : Bodies]

---------------------------------------------------------------------------
(* How a call ends *)

NoValue == [parser |-> "", format |-> "", source |-> <<>>, publicID |-> <<>>]

NoOutcome ==
    [kind |-> "none", tag |-> "", status |-> 0, text |-> <<>>, content_type |-> <<>>,
     value |-> NoValue]

\* return value, where tag is the kind of value
Return(tag, value) ==
    [kind |-> "return", tag |-> tag, status |-> 0, text |-> <<>>, content_type |-> <<>>,
     value |-> value]

\* raise SPARQLQueryException('%s: %s' % (response, response.text)):
\* str(response) is '<Response [status_code]>'
RaiseQueryException(resp) ==
    [kind |-> "raise", tag |-> "SPARQLQueryException", status |-> resp.status_code,
     text |-> resp.text, content_type |-> <<>>, value |-> NoValue]

\* raise UnknownSPARQLReturnTypeException('Got content of type: %s' % content_type)
RaiseUnknownReturnType(resp) ==
    [kind |-> "raise", tag |-> "UnknownSPARQLReturnTypeException", status |-> 0,
     text |-> <<>>, content_type |-> resp.content_type, value |-> NoValue]

\* raise Exception('Error from Graph Store (%s): %s' % (resp.status_code, resp.text))
RaiseGraphStoreError(resp) ==
    [kind |-> "raise", tag |-> "Exception", status |-> resp.status_code,
     text |-> resp.text, content_type |-> <<>>, value |-> NoValue]

---------------------------------------------------------------------------
(* SPARQLServer *)

Queries == { <<"SELECT">>, <<"CONSTRUCT">> }
Outputs == { <<"json">>, <<"xml">> }

\* QueryRequests with the else lost: the GET is sent after the POST as well.
QueryRequests_PostThenGet(pq, sparql, output) ==
    LET get == [method |-> "GET", url |-> query_url, data |-> NoForm,
                params |-> Form(sparql, output), body |-> NoBody,
                accept |-> Join(acceptable_sparql_responses, ","),
                content_type |-> <<>>, stream |-> TRUE]
    IN IF pq
       THEN << [get EXCEPT !.method = "POST", !.data = Form(sparql, output),
                           !.params = NoForm], get >>
       ELSE << get >>

\* QueryRequests with the Accept header left out of the GET branch.
QueryRequests_GetWithoutAccept(pq, sparql, output) ==
    IF pq
    THEN << [method |-> "POST", url |-> query_url, data |-> Form(sparql, output),
             params |-> NoForm, body |-> NoBody,
             accept |-> Join(acceptable_sparql_responses, ","),
             content_type |-> <<>>, stream |-> TRUE] >>
    ELSE << [method |-> "GET", url |-> query_url, data |-> NoForm,
             params |-> Form(sparql, output), body |-> NoBody,
             accept |-> <<>>, content_type |-> <<>>, stream |-> TRUE] >>

\* The request(s) query() sends: self.s.post(...) if self.post_queries, else self.s.get(...)
QueryRequests(pq, sparql, output) ==
    IF pq
    THEN << [method |-> "POST", url |-> query_url, data |-> Form(sparql, output),
             params |-> NoForm, body |-> NoBody,
             accept |-> Join(acceptable_sparql_responses, ","),
             content_type |-> <<>>, stream |-> TRUE] >>
    ELSE << [method |-> "GET", url |-> query_url, data |-> NoForm,
             params |-> Form(sparql, output), body |-> NoBody,
             accept |-> Join(acceptable_sparql_responses, ","),
             content_type |-> <<>>, stream |-> TRUE] >>

\* QueryOutcome comparing the content-type with == instead of startswith.
QueryOutcome_ExactMatch(sparql, output, resp) ==
    IF resp.status_code = 204 THEN Return("bool", [NoValue EXCEPT !.parser = "True"])
    ELSE IF resp.status_code # 200 THEN RaiseQueryException(resp)
    ELSE IF resp.content_type = RDF_XML
    THEN Return("Graph", [parser |-> "rdflib.ConjunctiveGraph.parse", format |-> "",
                          source |-> resp.text, publicID |-> query_url])
    ELSE IF resp.content_type = SPARQL_RESULTS_JSON
    THEN Return("json", [parser |-> "json.loads", format |-> "",
                         source |-> resp.text, publicID |-> <<>>])
    ELSE IF resp.content_type = SPARQL_RESULTS_XML
    THEN Return("xml", [parser |-> "objectify.parse", format |-> "",
                        source |-> resp.text, publicID |-> <<>>])
    ELSE RaiseUnknownReturnType(resp)

\* QueryOutcome looking at the content-type before the status.
QueryOutcome_ContentTypeFirst(sparql, output, resp) ==
    IF StartsWith(resp.content_type, RDF_XML)
    THEN Return("Graph", [parser |-> "rdflib.ConjunctiveGraph.parse", format |-> "",
                          source |-> resp.text, publicID |-> query_url])
    ELSE IF StartsWith(resp.content_type, SPARQL_RESULTS_JSON)
    THEN Return("json", [parser |-> "json.loads", format |-> "",
                         source |-> resp.text, publicID |-> <<>>])
    ELSE IF StartsWith(resp.content_type, SPARQL_RESULTS_XML)
    THEN Return("xml", [parser |-> "objectify.parse", format |-> "",
                        source |-> resp.text, publicID |-> <<>>])
    ELSE IF resp.status_code = 204 THEN Return("bool", [NoValue EXCEPT !.parser = "True"])
    ELSE IF resp.status_code # 200 THEN RaiseQueryException(resp)
    ELSE RaiseUnknownReturnType(resp)

\* QueryOutcome choosing the decoder of a 200 response by the output hint of the
\* request instead of the content-type of the response.
QueryOutcome_ByOutputHint(sparql, output, resp) ==
    IF resp.status_code = 204 THEN Return("bool", [NoValue EXCEPT !.parser = "True"])
    ELSE IF resp.status_code # 200 THEN RaiseQueryException(resp)
    ELSE IF output = <<"json">>
    THEN Return("json", [parser |-> "json.loads", format |-> "",
                         source |-> resp.text, publicID |-> <<>>])
    ELSE Return("xml", [parser |-> "objectify.parse", format |-> "",
                        source |-> resp.text, publicID |-> <<>>])

\* What query() does with the response it received.
QueryOutcome(sparql, output, resp) ==
    IF resp.status_code = 204 THEN Return("bool", [NoValue EXCEPT !.parser = "True"])
    ELSE IF resp.status_code # 200 THEN RaiseQueryException(resp)
    ELSE IF StartsWith(resp.content_type, RDF_XML)
    THEN Return("Graph", [parser |-> "rdflib.ConjunctiveGraph.parse", format |-> "",
                          source |-> resp.text, publicID |-> query_url])
    ELSE IF StartsWith(resp.content_type, SPARQL_RESULTS_JSON)
    THEN Return("json", [parser |-> "json.loads", format |-> "",
                         source |-> resp.text, publicID |-> <<>>])
    ELSE IF StartsWith(resp.content_type, SPARQL_RESULTS_XML)
    THEN Return("xml", [parser |-> "objectify.parse", format |-> "",
                        source |-> resp.text, publicID |-> <<>>])
    ELSE RaiseUnknownReturnType(resp)

---------------------------------------------------------------------------
(* UpdateableGraphStore, PatchableGraphStore *)

GraphUris == { <<"http", ":", "/", "/", "ex", "/", "g1">>, <<"urn", ":", "g 2">> }
Graphs == { "G1", "G2" }

\* urllib.quote_plus, per token
QuoteToken(t) ==
    CASE t = ":" -> "%3A"
      [] t = "/" -> "%2F"
      [] t = "g 2" -> "g+2"
      [] OTHER -> t

quote_plus(u) == [i \in 1..Len(u) |-> QuoteToken(u[i])]

\* urllib.urlencode({'graph': graph_uri})
urlencode_graph(graph_uri) == <<"graph", "=">> \o quote_plus(graph_uri)

\* urlparse.urljoin(base, rel) for a relative reference that is one path segment:
\* the last segment of the base's path is replaced.
urljoin(base, rel) ==
    LET slashes == { i \in 1..Len(base) : base[i] = "/" }
        last == CHOOSE i \in slashes : \A j \in slashes : j <= i
    IN SubSeq(base, 1, last) \o rel

request_url(ps, graph_uri) ==
    IF ps
    THEN dataset_url \o <<"?">> \o urlencode_graph(graph_uri)
    ELSE urljoin(dataset_url, quote_plus(graph_uri))

\* graph.serialize(format = fmt[, encoding = enc])
Serialize(graph, fmt, enc) == [format |-> fmt, encoding |-> enc, graph |-> graph]

GetRequests(ps, graph_uri) ==
    << [method |-> "GET", url |-> request_url(ps, graph_uri), data |-> NoForm,
        params |-> NoForm, body |-> NoBody,
        accept |-> Join(acceptable_graph_responses, ","),
        content_type |-> <<>>, stream |-> TRUE] >>

\* The format get() hands to graph.parse, "" when no branch is taken.
ParseFormat(content_type) ==
    IF StartsWith(content_type, TEXT_PLAIN) THEN "nt"
    ELSE IF StartsWith(content_type, RDF_XML) THEN "xml"
    ELSE IF StartsWith(content_type, TEXT_TURTLE) THEN "turtle"
    ELSE IF StartsWith(content_type, TEXT_N3) THEN "n3"
    ELSE ""

GetOutcome(graph_uri, resp) ==
    IF resp.status_code # 200 THEN RaiseGraphStoreError(resp)
    ELSE LET fmt == ParseFormat(resp.content_type)
         IN Return("Graph",
                   IF fmt = ""
                   THEN [parser |-> "rdflib.ConjunctiveGraph", format |-> "",
                         source |-> <<>>, publicID |-> <<>>]
                   ELSE [parser |-> "rdflib.ConjunctiveGraph.parse", format |-> fmt,
                         source |-> resp.text, publicID |-> graph_uri])

DeleteRequests(ps, graph_uri) ==
    << [method |-> "DELETE", url |-> request_url(ps, graph_uri), data |-> NoForm,
        params |-> NoForm, body |-> NoBody, accept |-> <<>>,
        content_type |-> <<>>, stream |-> FALSE] >>

DeleteOutcome(resp) ==
    IF resp.status_code \notin {200, 202} THEN RaiseGraphStoreError(resp)
    ELSE Return("None", NoValue)

PutRequests(ps, graph_uri, graph) ==
    << [method |-> "PUT", url |-> request_url(ps, graph_uri), data |-> NoForm,
        params |-> NoForm, body |-> Serialize(graph, "nt", ""), accept |-> <<>>,
        content_type |-> TEXT_PLAIN, stream |-> FALSE] >>

PutOutcome(resp) ==
    IF resp.status_code \notin {200, 201, 204} THEN RaiseGraphStoreError(resp)
    ELSE Return("None", NoValue)

\* graph_uri is None or Some(uri)
PostRequests(ps, graph_uri, graph) ==
    IF graph_uri # None
    THEN << [method |-> "POST", url |-> request_url(ps, graph_uri.val), data |-> NoForm,
             params |-> NoForm, body |-> Serialize(graph, "nt", ""), accept |-> <<>>,
             content_type |-> TEXT_PLAIN, stream |-> FALSE] >>
    ELSE << [method |-> "POST", url |-> dataset_url, data |-> NoForm,
             params |-> NoForm, body |-> Serialize(graph, "nt", ""), accept |-> <<>>,
             content_type |-> TEXT_PLAIN, stream |-> FALSE] >>

\* PostOutcome with the statuses of a post to a graph accepted for a post to the dataset.
PostOutcome_SameStatuses(graph_uri, resp) ==
    IF resp.status_code \notin {200, 201, 204} THEN RaiseGraphStoreError(resp)
    ELSE Return("None", NoValue)

PostOutcome(graph_uri, resp) ==
    IF graph_uri # None
    THEN IF resp.status_code \notin {200, 201, 204} THEN RaiseGraphStoreError(resp)
         ELSE Return("None", NoValue)
    ELSE IF resp.status_code # 201 THEN RaiseGraphStoreError(resp)
         ELSE Return("None", NoValue)

PatchRequests(ps, graph_uri, changes) ==
    << [method |-> "PATCH", url |-> request_url(ps, graph_uri), data |-> NoForm,
        params |-> NoForm, body |-> Serialize(changes, "xml", "utf-8"), accept |-> <<>>,
        content_type |-> CHANGESET_XML, stream |-> FALSE] >>

PatchOutcome(resp) ==
    IF resp.status_code \notin {200, 201, 204} THEN RaiseGraphStoreError(resp)
    ELSE Return("bool", [NoValue EXCEPT !.parser = "True"])

---------------------------------------------------------------------------
(* RDF terms, statements and graphs *)

URIRef(v) == [kind |-> "URIRef", v |-> v, n |-> 0]
Literal(v) == [kind |-> "Literal", v |-> v, n |-> 0]
\* the n-th blank node rdflib.BNode() hands out
BNode(n) == [kind |-> "BNode", v |-> "", n |-> n]

RDF_type == URIRef("rdf:type")
RDF_Statement == URIRef("rdf:Statement")
RDF_subject == URIRef("rdf:subject")
RDF_predicate == URIRef("rdf:predicate")
RDF_object == URIRef("rdf:object")

\* rdflib.Namespace("http://purl.org/vocab/changeset/schema#")[name]
cs_ns(name) == URIRef("http://purl.org/vocab/changeset/schema#" \o name)

\* The statements the input graphs are drawn from: two predicates, a literal whose
\* text is a predicate's URI, and a predicate's URI in object position.
Statements ==
    { <<URIRef("ex:s1"), URIRef("ex:p1"), URIRef("ex:o1")>>,
      <<URIRef("ex:s1"), URIRef("ex:p2"), URIRef("ex:o1")>>,
      <<URIRef("ex:s2"), URIRef("ex:p1"), Literal("ex:p2")>>,
      <<URIRef("ex:s2"), URIRef("ex:p2"), URIRef("ex:p1")>> }

ExcludeNames == { "ex:p1", "ex:p2" }

\* A graph as its code iterates it: its statements in iteration order, none twice.
GraphSeqs ==
    { g \in UNION { [1..k -> Statements] : k \in 0..MaxGraphLen } :
        \A i, j \in 1..Len(g) : i # j => g[i] # g[j] }

StatementSet(g) == { g[i] : i \in 1..Len(g) }

\* s in g
InGraph(s, g) == \E i \in 1..Len(g) : g[i] = s

Times == { "2014-01-01T00:00:00+00:00", "2014-01-01T00:00:01.5+00:00" }
ChangedGraphUris == { "http://ex/g1", "http://ex/g2" }

---------------------------------------------------------------------------
(* differences, reify, changeset *)

\* differences testing the object, s[2] in the code's 0-based indexing, against exclude.
differences_ExcludeByObject(ga, gb, ex) ==
    LET excluded == { URIRef(e) : e \in ex }
    IN << SelectSeq(ga, LAMBDA s : ~InGraph(s, gb) /\ s[3] \notin excluded),
          SelectSeq(gb, LAMBDA s : ~InGraph(s, ga) /\ s[3] \notin excluded) >>

\* differences applying exclude to the removals only.
differences_ExcludeRemovalsOnly(ga, gb, ex) ==
    LET excluded == { URIRef(e) : e \in ex }
    IN << SelectSeq(ga, LAMBDA s : ~InGraph(s, gb) /\ s[2] \notin excluded),
          SelectSeq(gb, LAMBDA s : ~InGraph(s, ga)) >>

differences(ga, gb, ex) ==
    LET excluded == { URIRef(e) : e \in ex }
    IN << SelectSeq(ga, LAMBDA s : ~InGraph(s, gb) /\ s[2] \notin excluded),
          SelectSeq(gb, LAMBDA s : ~InGraph(s, ga) /\ s[2] \notin excluded) >>

\* reify reusing one node for every statement instead of a fresh BNode().
reify_SharedNode(graph, statement, n) ==
    LET statement_node == BNode(n + 1)
    IN [graph |-> graph \cup { <<statement_node, RDF_type, RDF_Statement>>,
                               <<statement_node, RDF_subject, statement[1]>>,
                               <<statement_node, RDF_predicate, statement[2]>>,
                               <<statement_node, RDF_object, statement[3]>> },
        node |-> statement_node,
        bnodes |-> n]

\* reify(graph, statement), n blank nodes having been handed out before the call:
\* the graph with the reified statement added, the statement's node, the count after.
reify(graph, statement, n) ==
    LET statement_node == BNode(n + 1)
    IN [graph |-> graph \cup { <<statement_node, RDF_type, RDF_Statement>>,
                               <<statement_node, RDF_subject, statement[1]>>,
                               <<statement_node, RDF_predicate, statement[2]>>,
                               <<statement_node, RDF_object, statement[3]>> },
        node |-> statement_node,
        bnodes |-> n + 1]

\* for stmt in stmts: statement = reify(graph, stmt); graph.add((change_set, link, statement))
RECURSIVE ReifyEach(_, _, _, _, _)
ReifyEach(graph, n, change_set, link, stmts) ==
    IF Len(stmts) = 0 THEN [graph |-> graph, bnodes |-> n]
    ELSE LET r == reify(graph, Head(stmts), n)
         IN ReifyEach(r.graph \cup { <<change_set, link, r.node>> }, r.bnodes,
                      change_set, link, Tail(stmts))

\* changeset unpacking the result of differences in the wrong order:
\* addition, removal = differences(a, b)
changeset_Swapped(ga, gb, graph_uri, now, n) ==
    LET d == differences(ga, gb, {})
        removal == d[2]
        addition == d[1]
        change_set == BNode(n + 1)
        graph0 == { <<change_set, RDF_type, cs_ns("ChangeSet")>>,
                    <<change_set, cs_ns("createdDate"), Literal(now)>>,
                    <<change_set, cs_ns("subjectOfChange"), URIRef(graph_uri)>> }
        r1 == ReifyEach(graph0, n + 1, change_set, cs_ns("removal"), removal)
        r2 == ReifyEach(r1.graph, r1.bnodes, change_set, cs_ns("addition"), addition)
    IN r2

\* changeset(a, b, graph_uri), called at time now, n blank nodes having been handed
\* out before: the changeset graph and the count after.
changeset(ga, gb, graph_uri, now, n) ==
    LET d == differences(ga, gb, {})
        removal == d[1]
        addition == d[2]
        change_set == BNode(n + 1)
        graph0 == { <<change_set, RDF_type, cs_ns("ChangeSet")>>,
                    <<change_set, cs_ns("createdDate"), Literal(now)>>,
                    <<change_set, cs_ns("subjectOfChange"), URIRef(graph_uri)>> }
        r1 == ReifyEach(graph0, n + 1, change_set, cs_ns("removal"), removal)
        r2 == ReifyEach(r1.graph, r1.bnodes, change_set, cs_ns("addition"), addition)
    IN r2

---------------------------------------------------------------------------
(* The client: construction and one action per method.  A method is synchronous:
   it sends its request, blocks until the response is there and returns or raises,
   so a call is one step whose input is the response the server gives. *)

NoCall == [op |-> "none", sparql |-> <<>>, output |-> <<>>, graph_uri |-> None, graph |-> ""]

NoPrev ==
    [called |-> FALSE, post_queries |-> FALSE, sparql |-> <<>>, output |-> <<>>,
     status_code |-> 0, content_type |-> <<>>, kind |-> "none", tag |-> ""]

\* The last query call, as an observer of two calls keeps it: how it was asked, what
\* the server answered, how it ended.
LastQuery ==
    IF call.op = "query"
    THEN [called |-> TRUE, post_queries |-> (request.method = "POST"),
          sparql |-> call.sparql, output |-> call.output,
          status_code |-> response.status_code, content_type |-> response.content_type,
          kind |-> outcome.kind, tag |-> outcome.tag]
    ELSE prev

InitDiffIdle ==
    /\ a = <<>> /\ b = <<>> /\ exclude = {}
    /\ fwd = [called |-> FALSE, removals |-> <<>>, additions |-> <<>>]
    /\ rev = [called |-> FALSE, removals |-> <<>>, additions |-> <<>>]
    /\ cs = [called |-> FALSE, graph |-> {}]
    /\ bnodes = 0

InitClientIdle ==
    /\ post_queries = TRUE /\ param_style = TRUE
    /\ calls = 0 /\ wire = 0
    /\ call = NoCall /\ request = NoRequest /\ response = NoResponse
    /\ outcome = NoOutcome /\ prev = NoPrev

\* SPARQLServer.__init__, UpdateableGraphStore.__init__
Init ==
    /\ post_queries \in BOOLEAN
    /\ param_style \in BOOLEAN
    /\ calls = 0 /\ wire = 0
    /\ call = NoCall /\ request = NoRequest /\ response = NoResponse
    /\ outcome = NoOutcome /\ prev = NoPrev
    /\ InitDiffIdle

\* A new client replaces the current one: a new session, no call made on it yet.
Construct(pq, ps) ==
    /\ post_queries' = pq
    /\ param_style' = ps
    /\ calls' = 0 /\ wire' = 0
    /\ call' = NoCall /\ request' = NoRequest /\ response' = NoResponse
    /\ outcome' = NoOutcome
    /\ UNCHANGED prev
    /\ UNCHANGED diffVars

\* What every method call does to the client: reqs are the requests it sent.
Called(c, reqs, resp, out) ==
    /\ calls < MaxCalls
    /\ calls' = calls + 1
    /\ wire' = wire + Len(reqs)
    /\ call' = c
    /\ request' = reqs[Len(reqs)]
    /\ response' = resp
    /\ outcome' = out
    /\ UNCHANGED <<post_queries, param_style>>
    /\ UNCHANGED diffVars

QueryCall(sparql, output, resp) ==
    Called([NoCall EXCEPT !.op = "query", !.sparql = sparql, !.output = output],
           QueryRequests(post_queries, sparql, output), resp,
           QueryOutcome(sparql, output, resp))

Query(sparql, output, resp) ==
    /\ QueryCall(sparql, output, resp)
    /\ UNCHANGED prev

Get(graph_uri, resp) ==
    /\ Called([NoCall EXCEPT !.op = "get", !.graph_uri = Some(graph_uri)],
              GetRequests(param_style, graph_uri), resp, GetOutcome(graph_uri, resp))
    /\ UNCHANGED prev

Delete(graph_uri, resp) ==
    /\ Called([NoCall EXCEPT !.op = "delete", !.graph_uri = Some(graph_uri)],
              DeleteRequests(param_style, graph_uri), resp, DeleteOutcome(resp))
    /\ UNCHANGED prev

Put(graph_uri, graph, resp) ==
    /\ Called([NoCall EXCEPT !.op = "put", !.graph_uri = Some(graph_uri), !.graph = graph],
              PutRequests(param_style, graph_uri, graph), resp, PutOutcome(resp))
    /\ UNCHANGED prev

Post(graph_uri, graph, resp) ==
    /\ Called([NoCall EXCEPT !.op = "post", !.graph_uri = graph_uri, !.graph = graph],
              PostRequests(param_style, graph_uri, graph), resp,
              PostOutcome(graph_uri, resp))
    /\ UNCHANGED prev

Patch(graph_uri, changes, resp) ==
    /\ Called([NoCall EXCEPT !.op = "patch", !.graph_uri = Some(graph_uri), !.graph = changes],
              PatchRequests(param_style, graph_uri, changes), resp, PatchOutcome(resp))
    /\ UNCHANGED prev

Next ==
    \/ \E pq \in BOOLEAN, ps \in BOOLEAN : Construct(pq, ps)
    \/ \E sparql \in Queries, output \in Outputs, resp \in QueryResponses :
          Query(sparql, output, resp)
    \/ \E u \in GraphUris, resp \in GraphResponses : Get(u, resp)
    \/ \E u \in GraphUris, resp \in UpdateResponses : Delete(u, resp)
    \/ \E u \in GraphUris, g \in Graphs, resp \in UpdateResponses : Put(u, g, resp)
    \/ \E u \in {None} \cup {Some(x) : x \in GraphUris}, g \in Graphs,
          resp \in UpdateResponses : Post(u, g, resp)
    \/ \E u \in GraphUris, g \in Graphs, resp \in UpdateResponses : Patch(u, g, resp)

Spec == Init /\ [][Next]_vars

---------------------------------------------------------------------------
(* Two query calls side by side: the same client code, with prev keeping the
   earlier query call when the next one is made or the client is replaced. *)

\* The responses the pairs are drawn from: every status, a media type of each kind
\* of outcome, one body.
PairResponses ==
    [status_code : QueryStatuses,
     content_type : { RDF_XML, RDF_XML \o Charset, SPARQL_RESULTS_JSON,
                      <<"application/", "sparql-results+">> },
     text : { <<"payload">> }]

\* SPARQLServer.__init__
NewServer(pq) ==
    /\ post_queries' = pq
    /\ calls' = 0 /\ wire' = 0
    /\ call' = NoCall /\ request' = NoRequest /\ response' = NoResponse
    /\ outcome' = NoOutcome
    /\ prev' = LastQuery
    /\ UNCHANGED param_style
    /\ UNCHANGED diffVars

QueryObserved(sparql, output, resp) ==
    /\ QueryCall(sparql, output, resp)
    /\ prev' = LastQuery

NextPair ==
    \/ \E pq \in BOOLEAN : NewServer(pq)
    \/ \E sparql \in Queries, output \in Outputs, resp \in PairResponses :
          QueryObserved(sparql, output, resp)

SpecPair == Init /\ [][NextPair]_vars

---------------------------------------------------------------------------
(* differences and changeset as pure functions of their arguments *)

NoDiff == [called |-> FALSE, removals |-> <<>>, additions |-> <<>>]

InitDiff ==
    /\ a \in GraphSeqs
    /\ b \in GraphSeqs
    /\ exclude \in SUBSET ExcludeNames
    /\ fwd = NoDiff /\ rev = NoDiff
    /\ cs = [called |-> FALSE, graph |-> {}]
    /\ bnodes \in 0..1
    /\ InitClientIdle

\* differences(a, b, exclude)
Differences ==
    /\ ~fwd.called
    /\ LET d == differences(a, b, exclude)
       IN fwd' = [called |-> TRUE, removals |-> d[1], additions |-> d[2]]
    /\ UNCHANGED <<a, b, exclude, rev, cs, bnodes>>
    /\ UNCHANGED clientVars

\* differences(b, a, exclude)
DifferencesReversed ==
    /\ ~rev.called
    /\ LET d == differences(b, a, exclude)
       IN rev' = [called |-> TRUE, removals |-> d[1], additions |-> d[2]]
    /\ UNCHANGED <<a, b, exclude, fwd, cs, bnodes>>
    /\ UNCHANGED clientVars

\* changeset(a, b, graph_uri)
Changeset(graph_uri, now) ==
    /\ ~cs.called
    /\ LET r == changeset(a, b, graph_uri, now, bnodes)
       IN /\ cs' = [called |-> TRUE, graph |-> r.graph]
          /\ bnodes' = r.bnodes
    /\ UNCHANGED <<a, b, exclude, fwd, rev>>
    /\ UNCHANGED clientVars

NextDiff ==
    \/ Differences
    \/ DifferencesReversed
    \/ \E u \in ChangedGraphUris, now \in Times : Changeset(u, now)

SpecDiff == InitDiff /\ [][NextDiff]_vars

---------------------------------------------------------------------------
(* Properties of the query client *)

\* p is a prefix of s
IsPrefixOf(p, s) == \E k \in 0..Len(s) : SubSeq(s, 1, k) = p

QueryDone == call.op = "query"

\* C1: a query whose response has status 200 ends as the content-type header's
\* prefix says: application/rdf+xml gives a graph parsed from the body,
\* application/sparql-results+json the decoded JSON document,
\* application/sparql-results+xml the parsed XML tree, and any other content-type
\* raises UnknownSPARQLReturnTypeException carrying that content-type; what follows
\* the media type (a charset parameter) changes nothing.
C1_ContentTypeDispatch ==
    (QueryDone /\ response.status_code = 200) =>
        LET ct == response.content_type
        IN /\ IsPrefixOf(RDF_XML, ct) =>
                /\ outcome.kind = "return" /\ outcome.tag = "Graph"
                /\ outcome.value.parser = "rdflib.ConjunctiveGraph.parse"
                /\ outcome.value.source = response.text
           /\ IsPrefixOf(SPARQL_RESULTS_JSON, ct) =>
                /\ outcome.kind = "return" /\ outcome.tag = "json"
                /\ outcome.value.parser = "json.loads"
                /\ outcome.value.source = response.text
           /\ IsPrefixOf(SPARQL_RESULTS_XML, ct) =>
                /\ outcome.kind = "return" /\ outcome.tag = "xml"
                /\ outcome.value.parser = "objectify.parse"
                /\ outcome.value.source = response.text
           /\ (\A m \in {RDF_XML, SPARQL_RESULTS_JSON, SPARQL_RESULTS_XML} :
                    ~IsPrefixOf(m, ct)) =>
                /\ outcome.kind = "raise"
                /\ outcome.tag = "UnknownSPARQLReturnTypeException"
                /\ outcome.content_type = ct

\* A 200 response whose content-type is a recognised media type followed by a
\* charset parameter has been dispatched.
C1_Witness ==
    /\ QueryDone /\ response.status_code = 200
    /\ response.content_type = RDF_XML \o Charset
    /\ outcome.tag = "Graph"

C8_AcceptOrder ==
    QueryDone =>
        /\ request.method = (IF post_queries THEN "POST" ELSE "GET")
        /\ MediaTypes(request.accept) = <<SPARQL_RESULTS_JSON, RDF_XML, SPARQL_RESULTS_XML>>

\* C8 as claimed: the order is RDF/XML, SPARQL-results+JSON, SPARQL-results+XML.
C8_AcceptOrderAsClaimed ==
    QueryDone =>
        MediaTypes(request.accept) = <<RDF_XML, SPARQL_RESULTS_JSON, SPARQL_RESULTS_XML>>

\* A query was sent in GET mode.
C8_Witness ==
    /\ QueryDone /\ ~post_queries /\ request.method = "GET"
    /\ request.params.given /\ request.accept # <<>>

---------------------------------------------------------------------------
(* Properties of the graph store client *)

StoreOps == {"get", "delete", "put", "post", "patch"}

\* The statuses the last call's operation accepts, as specified.
Acceptable ==
    CASE call.op = "get" -> {200}
      [] call.op = "delete" -> {200, 202}
      [] call.op = "put" -> {200, 201, 204}
      [] call.op = "post" -> IF call.graph_uri.isNone THEN {201} ELSE {200, 201, 204}
      [] call.op = "patch" -> {200, 201, 204}
      [] OTHER -> {}

\* C3: a graph store operation returns if and only if the response status is in
\* the operation's acceptable set, and otherwise raises the graph store error
\* carrying status and body: get {200}, delete {200, 202}, put {200, 201, 204},
\* post to a graph {200, 201, 204}, post without a graph URI goes to the bare
\* dataset URL and accepts {201} only, patch {200, 201, 204} and returns True.
C3_AcceptableStatuses ==
    call.op \in StoreOps =>
        /\ outcome.kind = "return" <=> response.status_code \in Acceptable
        /\ outcome.kind # "return" =>
              /\ outcome.kind = "raise" /\ outcome.tag = "Exception"
              /\ outcome.status = response.status_code
              /\ outcome.text = response.text
        /\ (call.op = "post" /\ call.graph_uri.isNone) => request.url = dataset_url
        /\ (call.op = "post" /\ ~call.graph_uri.isNone) => request.url # dataset_url
        /\ (call.op = "patch" /\ outcome.kind = "return") =>
              outcome.tag = "bool" /\ outcome.value.parser = "True"

\* post without a graph URI was answered 200 and failed.
C3_Witness ==
    /\ call.op = "post" /\ call.graph_uri.isNone
    /\ response.status_code = 200 /\ outcome.kind = "raise"
    /\ request.url = dataset_url

\* C9: every call sends exactly one HTTP request: after any sequence of calls on a
\* client its session has sent as many requests as methods were called, failed
\* calls included, and the request on record is the last call's.
C9_OneRequestPerCall ==
    /\ wire = calls
    /\ call.op # "none" =>
          /\ calls >= 1
          /\ request.method =
                CASE call.op = "query" -> (IF post_queries THEN "POST" ELSE "GET")
                  [] call.op = "get" -> "GET"
                  [] call.op = "delete" -> "DELETE"
                  [] call.op = "put" -> "PUT"
                  [] call.op = "post" -> "POST"
                  [] call.op = "patch" -> "PATCH"

\* A second call on the same client has failed.
C9_Witness ==
    /\ calls = 2 /\ wire = 2
    /\ outcome.kind = "raise"

---------------------------------------------------------------------------
(* Two query calls *)

BothReturned == prev.called /\ QueryDone /\ prev.kind = "return" /\ outcome.kind = "return"

---------------------------------------------------------------------------
(* Properties of differences and changeset *)

NoDuplicates(q) == \A i, j \in 1..Len(q) : i # j => q[i] # q[j]

\* the statement's predicate is one of the excluded URIs
Excluded(s) == s[2].kind = "URIRef" /\ s[2].v \in exclude

\* C4: differences(a, b, E) returns as removals exactly the statements of a that
\* are not in b and whose predicate is not in E, and as additions exactly those of
\* b that are not in a and whose predicate is not in E, each once; for a graph and
\* itself both are empty.
C4_ExactDifferences ==
    fwd.called =>
        /\ NoDuplicates(fwd.removals) /\ NoDuplicates(fwd.additions)
        /\ StatementSet(fwd.removals) =
              { s \in StatementSet(a) : s \notin StatementSet(b) /\ ~Excluded(s) }
        /\ StatementSet(fwd.additions) =
              { s \in StatementSet(b) : s \notin StatementSet(a) /\ ~Excluded(s) }
        /\ a = b => (fwd.removals = <<>> /\ fwd.additions = <<>>)

\* differences returned a removal and an addition and left an excluded statement out.
C4_Witness ==
    /\ fwd.called
    /\ fwd.removals # <<>> /\ fwd.additions # <<>>
    /\ \E s \in StatementSet(a) : s \notin StatementSet(b) /\ Excluded(s)

\* C6: differences(b, a, E) is differences(a, b, E) with its two sequences swapped,
\* element for element.
C6_Antisymmetric ==
    (fwd.called /\ rev.called) =>
        /\ rev.removals = fwd.additions
        /\ rev.additions = fwd.removals

\* Both calls were made on graphs that differ both ways, with an exclusion at work.
C6_Witness ==
    /\ fwd.called /\ rev.called
    /\ Len(fwd.removals) + Len(fwd.additions) >= 2
    /\ fwd.removals # fwd.additions
    /\ \E s \in StatementSet(a) \cup StatementSet(b) : Excluded(s)

\* The resources of the changeset graph typed ChangeSet.
ChangeSets ==
    { t[1] : t \in { x \in cs.graph : x[2] = RDF_type /\ x[3] = cs_ns("ChangeSet") } }

\* The triples linking a ChangeSet resource by the predicate cs:name.
Links(name) == { t \in cs.graph : t[1] \in ChangeSets /\ t[2] = cs_ns(name) }

Targets(name) == { t[3] : t \in Links(name) }

\* The statements the graph reifies under node.
Reified(node) ==
    { <<x[3], y[3], z[3]>> :
        x \in { t \in cs.graph : t[1] = node /\ t[2] = RDF_subject },
        y \in { t \in cs.graph : t[1] = node /\ t[2] = RDF_predicate },
        z \in { t \in cs.graph : t[1] = node /\ t[2] = RDF_object } }

ReifiedUnder(name) == UNION { Reified(node) : node \in Targets(name) }

\* C5: the graph changeset(a, b, graph_uri) builds has one resource typed ChangeSet,
\* with len(removals) removal links and len(additions) addition links, removals and
\* additions being differences(a, b); the links point to distinct resources, each
\* typed Statement and carrying the subject, predicate and object of its statement.
C5_ChangesetShape ==
    cs.called =>
        LET d == differences(a, b, {})
        IN /\ Cardinality(ChangeSets) = 1
           /\ Cardinality(Links("removal")) = Len(d[1])
           /\ Cardinality(Links("addition")) = Len(d[2])
           /\ Cardinality(Targets("removal") \cup Targets("addition")) = Len(d[1]) + Len(d[2])
           /\ \A node \in Targets("removal") \cup Targets("addition") :
                 /\ <<node, RDF_type, RDF_Statement>> \in cs.graph
                 /\ Cardinality(Reified(node)) = 1
                 /\ Cardinality({ t \in cs.graph : t[1] = node }) = 4
           /\ ReifiedUnder("removal") = StatementSet(d[1])
           /\ ReifiedUnder("addition") = StatementSet(d[2])

\* A changeset with two links of one kind and one of the other was built.
C5_Witness ==
    /\ cs.called
    /\ Cardinality(Links("removal")) + Cardinality(Links("addition")) >= 3
    /\ Links("removal") # {} /\ Links("addition") # {}

\* C10: removing from a the statements reified under the removal links and adding
\* those reified under the addition links gives the statements of b, in either
\* order of the two steps, the two sets being disjoint.
C10_ChangesetTransforms ==
    cs.called =>
        LET R == ReifiedUnder("removal")
            A == ReifiedUnder("addition")
        IN /\ (StatementSet(a) \ R) \cup A = StatementSet(b)
           /\ (StatementSet(a) \cup A) \ R = StatementSet(b)
           /\ R \cap A = {}

\* A changeset was built for graphs that share a statement and differ both ways.
C10_Witness ==
    /\ cs.called
    /\ ReifiedUnder("removal") # {} /\ ReifiedUnder("addition") # {}
    /\ StatementSet(a) \cap StatementSet(b) # {}

=============================================================================
